---------------------------- MODULE Spec2Model ----------------------------
(***************************************************************************)
(* Model of scripts/doh/get-doh-publicservers.py (class DoHListBuilder):   *)
(* the Normalizer/Classifier, the Change Guard, the Curator, the Resolver  *)
(* Engine and the Orchestrator.                                            *)
(*                                                                         *)
(* Strings are sequences of one-character strings, so that strip, lower,   *)
(* rstrip and split are computed character by character as Python does.    *)
(* Python floats are IEEE-754 binary64 values, modelled bit-exactly by an  *)
(* exponent and a 53-bit mantissa.                                         *)
(***************************************************************************)
EXTENDS Integers, Sequences, FiniteSets, TLC

VARIABLES
    fn,         \* SpecPure: the pure-function call in progress and its result
    cur,        \* SpecCurate: one _write_lists call (inputs, buckets, result)
    files,      \* the output directory: path -> lines of the file, or ABSENT
    rs,         \* SpecResolve: one _resolve_fqdns batch (passes, futures, all_ips)
    run         \* SpecRun: the run() in progress (position, options, locals)

vars == <<fn, cur, files, rs, run>>

(***************************************************************************)
(* Bounds of the model.                                                    *)
(***************************************************************************)
MaxLen == 4          \* longest raw string given to _normalize
MaxLabels == 4       \* most "."-separated pieces of a name given to _is_base_domain
MaxCount == 12       \* largest of the small entry counts given to _check_ratio
MaxItems == 3        \* longest item list given to _write_lists

(***************************************************************************)
(* Generic string helpers.                                                 *)
(***************************************************************************)
\* Python's None.
NONE == <<"None">>

Range(s) == {s[i] : i \in 1..Len(s)}

Zeros(n) == [i \in 1..n |-> 0]

\* All sequences over S of length 0..n.
SeqsUpTo(S, n) == UNION {[1..k -> S] : k \in 0..n}

\* The characters str.strip() removes.
IsSpace(c) == c \in {" ", "\t"}

RECURSIVE LStrip(_)
LStrip(s) ==
    IF s = <<>> THEN <<>>
    ELSE IF IsSpace(s[1]) THEN LStrip(Tail(s)) ELSE s

RECURSIVE RStrip(_)
RStrip(s) ==
    IF s = <<>> THEN <<>>
    ELSE IF IsSpace(s[Len(s)]) THEN RStrip(SubSeq(s, 1, Len(s) - 1)) ELSE s

\* str.strip(): leading and trailing whitespace removed.
Strip(s) == RStrip(LStrip(s))

\* str.lower() on the letters of the model's alphabet.
LowerChar(c) ==
    CASE c = "A" -> "a"
      [] c = "B" -> "b"
      [] c = "C" -> "c"
      [] c = "D" -> "d"
      [] c = "E" -> "e"
      [] c = "F" -> "f"
      [] c = "G" -> "g"
      [] c = "O" -> "o"
      [] OTHER -> c

Lower(s) == [i \in 1..Len(s) |-> LowerChar(s[i])]

\* str.rstrip("."): every trailing dot removed.
RECURSIVE RStripDot(_)
RStripDot(s) ==
    IF s = <<>> THEN <<>>
    ELSE IF s[Len(s)] = "." THEN RStripDot(SubSeq(s, 1, Len(s) - 1)) ELSE s

\* str.split(c): the pieces between the occurrences of c ("" gives [""]).
RECURSIVE SplitFrom(_, _, _)
SplitFrom(s, c, piece) ==
    IF s = <<>> THEN <<piece>>
    ELSE IF s[1] = c THEN <<piece>> \o SplitFrom(Tail(s), c, <<>>)
    ELSE SplitFrom(Tail(s), c, Append(piece, s[1]))

Split(s, c) == SplitFrom(s, c, <<>>)

\* c.join(parts)
RECURSIVE Join(_, _)
Join(parts, c) ==
    IF parts = <<>> THEN <<>>
    ELSE IF Len(parts) = 1 THEN parts[1]
    ELSE parts[1] \o <<c>> \o Join(Tail(parts), c)

(***************************************************************************)
(* Normalizer/Classifier: _normalize                                       *)
(***************************************************************************)
Normalize(value) ==
    IF value = NONE \/ value = <<>> THEN NONE
    ELSE LET v == RStripDot(Lower(Strip(value)))
         IN IF v = <<>> THEN NONE ELSE v

(***************************************************************************)
(* Normalizer/Classifier: _is_base_domain                                  *)
(***************************************************************************)
multi_tlds ==
    { <<"c","o",".","u","k">>, <<"c","o",".","z","a">>, <<"c","o",".","j","p">>,
      <<"c","o",".","n","z">>, <<"c","o",".","i","n">>, <<"c","o",".","k","r">>,
      <<"c","o","m",".","a","u">>, <<"c","o","m",".","b","r">>,
      <<"c","o","m",".","c","n">>, <<"c","o","m",".","m","x">>,
      <<"c","o","m",".","a","r">>,
      <<"o","r","g",".","u","k">>, <<"n","e","t",".","a","u">>,
      <<"g","o","v",".","u","k">>, <<"a","c",".","u","k">>,
      <<"e","d","u",".","a","u">> }

NonEmptyLabel(l) == l # <<>>

\* The labels the code counts: the pieces of split("."), the empty ones dropped.
LabelsKeepEmpty(fqdn) == Split(fqdn, ".")

Labels(fqdn) == SelectSeq(Split(fqdn, "."), NonEmptyLabel)

IsBaseDomain(fqdn) ==
    IF fqdn = NONE \/ fqdn = <<>> \/ "." \notin Range(fqdn) \/ fqdn = <<".">>
    THEN FALSE
    ELSE LET labels == Labels(fqdn)
             n == Len(labels)
         IN IF labels = <<>> THEN FALSE
            ELSE IF n >= 3 /\ (labels[n - 1] \o <<".">> \o labels[n]) \in multi_tlds
                 THEN n = 3
                 ELSE n = 2

(***************************************************************************)
(* Ordering of strings and of addresses.                                   *)
(***************************************************************************)
\* The characters of the model in ascending code point order.
CharOrder ==
    << "\t", " ", "#", ".", "/", "0", "1", "2", "3", "4", "5", "6", "7", "8", "9", ":", ";",
       "A", "B", "C", "D", "E", "F", "G", "[", "]",
       "a", "b", "c", "d", "e", "f", "g", "h", "i", "j", "k", "l", "m", "n", "o",
       "p", "q", "r", "s", "t", "u", "v", "w", "x", "y", "z" >>

CharCode(c) == CHOOSE i \in 1..Len(CharOrder) : CharOrder[i] = c

\* The sort key of a plain string: its code points.
StrKey(s) == [i \in 1..Len(s) |-> CharCode(s[i])]

\* a <= b for sequences of integers, compared as Python compares strings and as
\* integers compare digit by digit: the first difference decides, a prefix is less.
RECURSIVE SeqLeq(_, _)
SeqLeq(a, b) ==
    IF a = <<>> THEN TRUE
    ELSE IF b = <<>> THEN FALSE
    ELSE IF a[1] # b[1] THEN a[1] < b[1]
    ELSE SeqLeq(Tail(a), Tail(b))

(***************************************************************************)
(* ipaddress.IPv4Address / IPv6Address of the standard library: the value  *)
(* of a literal, or NONE where the constructor raises.  IPv4 values are    *)
(* kept as their 4 octets and IPv6 values as their 8 hextets, most         *)
(* significant first, which order as the integers do.  Scope ids ("%")    *)
(* are outside the model's alphabet.                                       *)
(***************************************************************************)
DecDigits == <<"0", "1", "2", "3", "4", "5", "6", "7", "8", "9">>

HexDigits == DecDigits \o <<"a", "b", "c", "d", "e", "f">>

DigitVal(c) == (CHOOSE i \in 1..Len(HexDigits) : HexDigits[i] = LowerChar(c)) - 1

RECURSIVE NumVal(_, _, _)
NumVal(s, base, acc) ==
    IF s = <<>> THEN acc ELSE NumVal(Tail(s), base, acc * base + DigitVal(s[1]))

\* IPv4Address._parse_octet
OctetOk(o) ==
    /\ o # <<>>
    /\ \A i \in 1..Len(o) : o[i] \in Range(DecDigits)
    /\ Len(o) <= 3
    /\ ~(o # <<"0">> /\ o[1] = "0")
    /\ NumVal(o, 10, 0) <= 255

IPv4Octets(s) ==
    IF s = NONE THEN NONE
    ELSE LET octets == Split(s, ".")
         IN IF Len(octets) = 4 /\ \A i \in 1..4 : OctetOk(octets[i])
            THEN [i \in 1..4 |-> NumVal(octets[i], 10, 0)]
            ELSE NONE

\* IPv6Address._parse_hextet
HextetOk(h) ==
    /\ h # <<>>
    /\ \A i \in 1..Len(h) : LowerChar(h[i]) \in Range(HexDigits)
    /\ Len(h) <= 4

\* '%x' % v
RECURSIVE ToHex(_)
ToHex(v) ==
    IF v < 16 THEN <<HexDigits[v + 1]>>
    ELSE ToHex(v \div 16) \o <<HexDigits[(v % 16) + 1]>>

\* IPv6Address._ip_int_from_string, after an IPv4 tail was turned into hextets.
IPv6FromParts(parts) ==
    LET n == Len(parts)
        skips == {i \in 2..(n - 1) : parts[i] = <<>>}
    IN IF n > 9 \/ Cardinality(skips) > 1 THEN NONE
       ELSE IF skips # {}
       THEN LET k == CHOOSE i \in skips : TRUE
                hi0 == k - 1
                lo0 == n - k
                hi == IF parts[1] = <<>> THEN hi0 - 1 ELSE hi0
                lo == IF parts[n] = <<>> THEN lo0 - 1 ELSE lo0
            IN IF (parts[1] = <<>> /\ hi # 0) \/ (parts[n] = <<>> /\ lo # 0)
                  \/ 8 - (hi + lo) < 1
                  \/ \E i \in (1..hi) \cup ((n - lo + 1)..n) : ~HextetOk(parts[i])
               THEN NONE
               ELSE [i \in 1..hi |-> NumVal(parts[i], 16, 0)]
                    \o Zeros(8 - (hi + lo))
                    \o [i \in 1..lo |-> NumVal(parts[n - lo + i], 16, 0)]
       ELSE IF n # 8 \/ \E i \in 1..n : ~HextetOk(parts[i]) THEN NONE
            ELSE [i \in 1..8 |-> NumVal(parts[i], 16, 0)]

IPv6Hextets(s) ==
    IF s = NONE \/ s = <<>> THEN NONE
    ELSE LET parts == Split(s, ":")
             n == Len(parts)
         IN IF n < 3 THEN NONE
            ELSE IF "." \in Range(parts[n])
            THEN LET v4 == IPv4Octets(parts[n])
                 IN IF v4 = NONE THEN NONE
                    ELSE IPv6FromParts(SubSeq(parts, 1, n - 1)
                                       \o <<ToHex(v4[1] * 256 + v4[2]),
                                            ToHex(v4[3] * 256 + v4[4])>>)
            ELSE IPv6FromParts(parts)

IsIPv4(value) == IPv4Octets(value) # NONE

IsIPv6(value) == IPv6Hextets(value) # NONE


(***************************************************************************)
(* Python floats (IEEE-754 binary64), positive values only: the value of    *)
(* [e |-> e, m |-> m] is 1.m[2]m[3]...m[53] (binary) * 2^e, with m[1] = 1. *)
(* Every operation rounds to nearest, ties to even, as the hardware does.   *)
(***************************************************************************)
MantBits == 53

\* bits + 1 over a fixed width; the carry out of the top bit is dropped.
RECURSIVE IncBits(_)
IncBits(bits) ==
    IF bits = <<>> THEN <<>>
    ELSE LET n == Len(bits)
         IN IF bits[n] = 0 THEN SubSeq(bits, 1, n - 1) \o <<1>>
            ELSE IncBits(SubSeq(bits, 1, n - 1)) \o <<0>>

\* The float of mantissa m and exponent e, rounded up by one unit in the last
\* place when up is true.
RoundUp(e, m, up) ==
    IF ~up THEN [e |-> e, m |-> m]
    ELSE IF \A i \in 1..Len(m) : m[i] = 1
         THEN [e |-> e + 1, m |-> <<1>> \o Zeros(Len(m) - 1)]
         ELSE [e |-> e, m |-> IncBits(m)]

\* num/den scaled by powers of two into [1, 2), with the exponent taken out.
RECURSIVE NormExp(_, _, _)
NormExp(num, den, e) ==
    IF num >= 2 * den THEN NormExp(num, 2 * den, e + 1)
    ELSE IF num < den THEN NormExp(2 * num, den, e - 1)
    ELSE [num |-> num, den |-> den, e |-> e]

\* Long division: k more quotient bits of rem/den, and the remainder left.
RECURSIVE DivBits(_, _, _, _)
DivBits(rem, den, k, acc) ==
    IF k = 0 THEN [bits |-> acc, rem |-> rem]
    ELSE LET r2 == 2 * rem
         IN IF r2 >= den THEN DivBits(r2 - den, den, k - 1, Append(acc, 1))
            ELSE DivBits(r2, den, k - 1, Append(acc, 0))

\* a / b for positive integers a, b: the correctly rounded quotient.
FDiv(a, b) ==
    LET n == NormExp(a, b, 0)
        d == DivBits(n.num - n.den, n.den, MantBits - 1, <<1>>)
        up == \/ 2 * d.rem > n.den
              \/ 2 * d.rem = n.den /\ d.bits[MantBits] = 1
    IN RoundUp(n.e, d.bits, up)

\* The float of a fixed-point bit string F, F[i] of weight 2^(1-i), F # 0.
FromFixed(F) ==
    LET k == CHOOSE i \in 1..Len(F) : F[i] = 1 /\ \A j \in 1..(i - 1) : F[j] = 0
        P == F \o Zeros(MantBits + 1)
        m == SubSeq(P, k, k + MantBits - 1)
        half == P[k + MantBits]
        rest == \E j \in (k + MantBits + 1)..Len(P) : P[j] = 1
        up == half = 1 /\ (rest \/ m[MantBits] = 1)
    IN RoundUp(1 - k, m, up)

\* The fixed-point bit string of a float t with 0 < t < 1.
ToFixed(t) == <<0>> \o Zeros(-t.e - 1) \o t.m

\* The two's complement of the bits: those above the lowest 1 are flipped.
RECURSIVE NegBits(_)
NegBits(bits) ==
    IF bits = <<>> THEN <<>>
    ELSE LET n == Len(bits)
         IN IF bits[n] = 1
            THEN [i \in 1..(n - 1) |-> 1 - bits[i]] \o <<1>>
            ELSE NegBits(SubSeq(bits, 1, n - 1)) \o <<0>>

\* 1.0 + t and 1.0 - t for a float t with 0 < t < 1.
OnePlus(t) == FromFixed(<<1>> \o Tail(ToFixed(t)))

OneMinus(t) == FromFixed(<<0>> \o NegBits(Tail(ToFixed(t))))

RECURSIVE LexLess(_, _)
LexLess(x, y) ==
    IF x = <<>> \/ y = <<>> THEN FALSE
    ELSE IF x[1] # y[1] THEN x[1] < y[1]
    ELSE LexLess(Tail(x), Tail(y))

\* x < y on positive floats.
FLess(x, y) == x.e < y.e \/ (x.e = y.e /\ LexLess(x.m, y.m))

(***************************************************************************)
(* Change Guard: _check_ratio.  The tolerance warn_change_ratio is given   *)
(* in hundredths (tol = 20 is --warn-change-ratio 0.20); float("0.20") is  *)
(* the correctly rounded quotient 20/100.                                  *)
(***************************************************************************)
ParseFloat(tol) == FDiv(tol, 100)

CheckRatio(old_count, new_count, tol) ==
    IF old_count = 0 \/ new_count = 0 THEN TRUE
    ELSE LET ratio == FDiv(new_count, old_count)
             min_ratio == OneMinus(ParseFloat(tol))
             max_ratio == OnePlus(ParseFloat(tol))
         IN ~(FLess(ratio, min_ratio) \/ FLess(max_ratio, ratio))

(***************************************************************************)
(* SpecPure: one call of a pure function on an input drawn from a bounded  *)
(* set.  _normalize is then applied once more to its own result.           *)
(***************************************************************************)
NormChars == {"a", "A", " ", "."}

LabelPool ==
    { <<>>, <<"a">>, <<"c","o">>, <<"u","k">>, <<"c","o","m">>, <<"a","u">> }

\* The counts of the documented examples, and every small count.
RatioCounts == (0..MaxCount) \cup {79, 80, 100, 120, 121}

\* --warn-change-ratio, in hundredths: the default 0.2, 0.3 of the usage
\* text, 0.5 and 0.7.
Tolerances == {20, 30, 50, 70}

NormalizeInputs == SeqsUpTo(NormChars, MaxLen) \cup {NONE}

BaseDomainInputs == {Join(ls, ".") : ls \in SeqsUpTo(LabelPool, MaxLabels)}

RatioInputs == RatioCounts \X RatioCounts \X Tolerances

NoCall == [name |-> "none", arg |-> NONE, step |-> 0, ret |-> NONE, ret2 |-> NONE]

NewCall(name, arg) == [NoCall EXCEPT !.name = name, !.arg = arg]

NoCurate == [pc |-> "none"]

NoFiles == <<>>

NoResolve == [pc |-> "none"]

NoRun == [pc |-> "none"]

InitPure ==
    /\ fn \in {NewCall("normalize", a) : a \in NormalizeInputs}
          \cup {NewCall("is_base_domain", a) : a \in BaseDomainInputs}
          \cup {NewCall("check_ratio", a) : a \in RatioInputs}
    /\ cur = NoCurate
    /\ files = NoFiles
    /\ rs = NoResolve
    /\ run = NoRun

CallNormalize ==
    /\ fn.name = "normalize" /\ fn.step = 0
    /\ fn' = [fn EXCEPT !.step = 1, !.ret = Normalize(fn.arg)]
    /\ UNCHANGED <<cur, files, rs, run>>

CallNormalizeAgain ==
    /\ fn.name = "normalize" /\ fn.step = 1
    /\ fn' = [fn EXCEPT !.step = 2, !.ret2 = Normalize(fn.ret)]
    /\ UNCHANGED <<cur, files, rs, run>>

CallIsBaseDomain ==
    /\ fn.name = "is_base_domain" /\ fn.step = 0
    /\ fn' = [fn EXCEPT !.step = 1, !.ret = IsBaseDomain(fn.arg)]
    /\ UNCHANGED <<cur, files, rs, run>>

CallCheckRatio ==
    /\ fn.name = "check_ratio" /\ fn.step = 0
    /\ fn' = [fn EXCEPT !.step = 1, !.ret = CheckRatio(fn.arg[1], fn.arg[2], fn.arg[3])]
    /\ UNCHANGED <<cur, files, rs, run>>

NextPure == CallNormalize \/ CallNormalizeAgain \/ CallIsBaseDomain \/ CallCheckRatio

SpecPure == InitPure /\ [][NextPure]_vars

(***************************************************************************)
(* Claims about the pure functions.                                        *)
(***************************************************************************)
\* The band of the Change Guard in exact arithmetic:
\* (1 - tol/100) <= new/old <= (1 + tol/100), both edges included.
InBand(old, new, tol) ==
    /\ (100 - tol) * old <= 100 * new
    /\ 100 * new <= (100 + tol) * old

\* C3: _check_ratio(old, new) with tolerance t returns true exactly when
\* old = 0, or new = 0, or 1 - t <= new/old <= 1 + t, both edges inclusive.
C3_RatioExactBand ==
    (fn.name = "check_ratio" /\ fn.step = 1) =>
        fn.ret = ( \/ fn.arg[1] = 0
                   \/ fn.arg[2] = 0
                   \/ InBand(fn.arg[1], fn.arg[2], fn.arg[3]) )

IsTrimmed(s) == s = <<>> \/ (~IsSpace(s[1]) /\ ~IsSpace(s[Len(s)]))

IsLowerCase(s) == \A i \in 1..Len(s) : LowerChar(s[i]) = s[i]

NoTrailingDot(s) == s = <<>> \/ s[Len(s)] # "."

\* C9: normalize(normalize(x)) = normalize(x) for every input, and every
\* token normalize returns is trimmed, lower-case and without a trailing dot.
C9_NormalizeIdempotent ==
    /\ (fn.name = "normalize" /\ fn.step = 2) => fn.ret2 = fn.ret
    /\ (fn.name = "normalize" /\ fn.step >= 1 /\ fn.ret # NONE) =>
          IsTrimmed(fn.ret) /\ IsLowerCase(fn.ret) /\ NoTrailingDot(fn.ret)

\* The rule of C10 as stated: the pieces of split(".") are counted as they are.
ClaimedBaseDomain(t) ==
    LET l == Split(t, ".")
    IN /\ t # <<>> /\ t # <<".">>
       /\ \/ Len(l) = 2
          \/ Len(l) = 3 /\ (l[2] \o <<".">> \o l[3]) \in multi_tlds

\* C10 (as stated): is_base_domain(token) is true exactly when the token, split
\* on ".", has exactly 2 labels, or exactly 3 labels whose last two form a member
\* of the multi-label suffix set; false otherwise and for "" and ".".
C10_BaseDomainBySplit ==
    (fn.name = "is_base_domain" /\ fn.step = 1) => fn.ret = ClaimedBaseDomain(fn.arg)

\* The non-empty pieces of t between dots, computed independently of Split.
RECURSIVE NonEmptyPieces(_, _)
NonEmptyPieces(t, piece) ==
    IF t = <<>> THEN (IF piece = <<>> THEN <<>> ELSE <<piece>>)
    ELSE IF t[1] = "."
         THEN (IF piece = <<>> THEN <<>> ELSE <<piece>>) \o NonEmptyPieces(Tail(t), <<>>)
         ELSE NonEmptyPieces(Tail(t), Append(piece, t[1]))

\* C10 (amended): is_base_domain(token) is true exactly when the token has
\* exactly 2 non-empty labels, or exactly 3 non-empty labels whose last two form
\* a member of the multi-label suffix set; empty labels are not counted.
C10_BaseDomainByNonEmptyLabels ==
    (fn.name = "is_base_domain" /\ fn.step = 1) =>
        LET l == NonEmptyPieces(fn.arg, <<>>)
        IN fn.ret = ( \/ Len(l) = 2
                      \/ Len(l) = 3 /\ (l[2] \o <<".">> \o l[3]) \in multi_tlds )

\* A name of three non-empty labels ending in a listed suffix was classified
\* as a base domain, and so was a name with an empty label between two others.
C10_Witness ==
    /\ fn.name = "is_base_domain" /\ fn.step = 1 /\ fn.ret = TRUE
    /\ Len(Split(fn.arg, ".")) = 3
    /\ Len(NonEmptyPieces(fn.arg, <<>>)) = 2

(***************************************************************************)
(* Curator: _write_lists                                                   *)
(***************************************************************************)
\* A path that does not exist, and a file holding the given lines.
ABSENT == [exists |-> FALSE, lines |-> <<>>]

File(lines) == [exists |-> TRUE, lines |-> lines]

Kinds == {"all", "filtered", "exclusions", "basedomains"}

\* A classification that looks at the base-domain status before the exclusions.
ClassifyBaseFirst(normalized, exclusions, basedomain_ips) ==
    LET is_basedomain ==
            IF ~IsIPv4(normalized) /\ ~IsIPv6(normalized)
            THEN IsBaseDomain(normalized)
            ELSE basedomain_ips # {} /\ normalized \in basedomain_ips
    IN IF is_basedomain THEN "base_domains"
       ELSE IF normalized \in exclusions THEN "excluded" ELSE "filtered"

\* The bucket of one normalized item (lines 251-266).
Classify(normalized, exclusions, basedomain_ips) ==
    IF normalized \in exclusions THEN "excluded"
    ELSE LET is_basedomain ==
                 IF ~IsIPv4(normalized) /\ ~IsIPv6(normalized)
                 THEN IsBaseDomain(normalized)
                 ELSE basedomain_ips # {} /\ normalized \in basedomain_ips
         IN IF is_basedomain THEN "base_domains" ELSE "filtered"

\* A loop without the last "else": a base domain is appended to filtered too.
RECURSIVE BucketNoElse(_, _, _, _)
BucketNoElse(items, exclusions, basedomain_ips, b) ==
    IF items = <<>> THEN <<>>
    ELSE LET normalized == Normalize(items[1])
             rest == BucketNoElse(Tail(items), exclusions, basedomain_ips, b)
             c == Classify(normalized, exclusions, basedomain_ips)
         IN IF normalized = NONE THEN rest
            ELSE IF c = b \/ (c = "base_domains" /\ b = "filtered")
                 THEN <<normalized>> \o rest
                 ELSE rest

\* The list the loop of lines 246-266 appends to for bucket b, in input order.
RECURSIVE Bucket(_, _, _, _)
Bucket(items, exclusions, basedomain_ips, b) ==
    IF items = <<>> THEN <<>>
    ELSE LET normalized == Normalize(items[1])
             rest == Bucket(Tail(items), exclusions, basedomain_ips, b)
         IN IF normalized = NONE THEN rest
            ELSE IF Classify(normalized, exclusions, basedomain_ips) = b
                 THEN <<normalized>> \o rest
                 ELSE rest

\* sorted(S, key = Key): every arrangement of S with non-decreasing keys (the
\* order of members with equal keys is that of the set's iteration).
Sorted(S, Key(_)) ==
    { p \in [1..Cardinality(S) -> S] :
        /\ Range(p) = S
        /\ \A i \in 1..(Cardinality(S) - 1) : SeqLeq(Key(p[i]), Key(p[i + 1])) }

\* sort_items (lines 269-278): the possible results.
SortItems(items_list) ==
    LET unique == Range(items_list)
    IN IF \A x \in unique : IsIPv4(x) THEN Sorted(unique, IPv4Octets)
       ELSE IF \A x \in unique : IsIPv6(x) THEN Sorted(unique, IPv6Hextets)
       ELSE Sorted(unique, StrKey)

\* A filtered list that is the union whatever the option says.
FilteredListAlwaysUnion(filtered, base_domains, filter_base_domains) ==
    CHOOSE p \in Sorted(Range(filtered \o base_domains), StrKey) : TRUE

\* The filtered list of lines 291-294, given the sorted buckets.
FilteredList(filtered, base_domains, filter_base_domains) ==
    IF filter_base_domains THEN filtered
    ELSE CHOOSE p \in Sorted(Range(filtered \o base_domains), StrKey) : TRUE

\* The possible outcomes of the computation of lines 242-294.
Curate(items, exclusions, basedomain_ips, filter_base_domains) ==
    LET bds == Bucket(items, exclusions, basedomain_ips, "base_domains")
        exs == Bucket(items, exclusions, basedomain_ips, "excluded")
        fls == Bucket(items, exclusions, basedomain_ips, "filtered")
    IN { [base_domains |-> bd, excluded |-> ex, filtered |-> fl, all_items |-> al,
          filtered_list |-> FilteredList(fl, bd, filter_base_domains)] :
           bd \in SortItems(bds), ex \in SortItems(exs), fl \in SortItems(fls),
           al \in SortItems(bds \o exs \o fls) }

\* The four paths of one artifact family.
Paths(stem) ==
    [all |-> <<stem, "all">>, filtered |-> <<stem, "filtered">>,
     exclusions |-> <<stem, "exclusions">>, basedomains |-> <<stem, "basedomains">>]

\* Writes that are not conditional: each of the four files is written.
WriteFilesAlways(fs, paths, r) ==
    [p \in DOMAIN fs |->
        IF p = paths.all THEN File(r.all_items)
        ELSE IF p = paths.filtered THEN File(r.filtered_list)
        ELSE IF p = paths.exclusions THEN File(r.excluded)
        ELSE IF p = paths.basedomains THEN File(r.base_domains)
        ELSE fs[p]]

\* The files after the writes of lines 285-309: "\n".join(list) to each path
\* written, every other path left as it is.
WriteFiles(fs, paths, r) ==
    [p \in DOMAIN fs |->
        IF p = paths.all THEN File(r.all_items)
        ELSE IF p = paths.filtered /\ r.filtered_list # <<>>
                /\ r.filtered_list # r.all_items THEN File(r.filtered_list)
        ELSE IF p = paths.exclusions /\ r.excluded # <<>> THEN File(r.excluded)
        ELSE IF p = paths.basedomains /\ r.base_domains # <<>>
             THEN File(r.base_domains)
        ELSE fs[p]]

\* The tuple _write_lists returns (line 311).
WriteListsReturn(r) ==
    <<Len(r.all_items), Len(r.filtered_list), Len(r.excluded), Len(r.base_domains)>>

(***************************************************************************)
(* Exclusion Set: _load_exclusions                                         *)
(***************************************************************************)
IsComment(line) == line # <<>> /\ line[1] \in {"#", ";"}

\* exclusions: the CLI values; file_lines: the lines of the exclusions file
\* (<<>> when no file is given or it does not exist).
LoadExclusions(exclusions, file_lines) ==
    ({Normalize(exclusions[i]) : i \in 1..Len(exclusions)}
       \cup {Normalize(Strip(file_lines[i])) :
               i \in {k \in 1..Len(file_lines) :
                        Strip(file_lines[k]) # <<>> /\ ~IsComment(Strip(file_lines[k]))}})
    \ {NONE}

(***************************************************************************)
(* SpecCurate: one call of _write_lists, as the tests make it, on a batch  *)
(* of raw tokens; the directory is empty or holds earlier files.           *)
(***************************************************************************)
T_g_co == <<"g", ".", "c", "o">>
T_d_g_co == <<"d", ".", "g", ".", "c", "o">>
T_G_CO_dot == <<"G", ".", "C", "O", ".">>
T_blank == <<" ">>
T_9_9_9_9 == <<"9", ".", "9", ".", "9", ".", "9">>
T_10_0_0_1 == <<"1", "0", ".", "0", ".", "0", ".", "1">>
T_v6_a == <<":", ":", "a">>
T_v6_10 == <<":", ":", "1", "0">>
T_comment == <<"#", "g">>

CurateTokens ==
    {T_g_co, T_d_g_co, T_G_CO_dot, T_blank, T_9_9_9_9, T_10_0_0_1, T_v6_a}

\* (CLI exclusions, exclusions file lines)
ExclusionSources ==
    { << <<>>, <<>> >>,
      << <<T_G_CO_dot, T_blank>>, << <<" ">> \o T_9_9_9_9, T_comment >> >>,
      << <<T_v6_a>>, <<T_d_g_co>> >> }

BaseDomainIpSets == { {}, {T_9_9_9_9, T_v6_a} }

\* A file left by an earlier call.
STALE == File(<<T_d_g_co>>)

TestPaths == Paths("test")

InitCurate ==
    /\ fn = NoCall
    /\ rs = NoResolve
    /\ run = NoRun
    /\ \E items \in SeqsUpTo(CurateTokens, MaxItems), src \in ExclusionSources,
          bdips \in BaseDomainIpSets, fbd \in BOOLEAN :
         cur = [pc |-> "call", items |-> items,
                exclusions |-> LoadExclusions(src[1], src[2]),
                basedomain_ips |-> bdips, filter_base_domains |-> fbd,
                r |-> NONE, ret |-> NONE]
    /\ \E old \in {ABSENT, STALE} :
         files = [p \in {TestPaths[k] : k \in Kinds} |-> old]

WriteListsCall ==
    /\ cur.pc = "call"
    /\ \E r \in Curate(cur.items, cur.exclusions, cur.basedomain_ips,
                       cur.filter_base_domains) :
         /\ cur' = [cur EXCEPT !.pc = "done", !.r = r, !.ret = WriteListsReturn(r)]
         /\ files' = WriteFiles(files, TestPaths, r)
    /\ UNCHANGED <<fn, rs, run>>

NextCurate == WriteListsCall

SpecCurate == InitCurate /\ [][NextCurate]_vars

(***************************************************************************)
(* Claims about the Curator.                                               *)
(***************************************************************************)
\* The normalized, non-empty tokens of the call's input batch.
InputTokens == {Normalize(cur.items[i]) : i \in 1..Len(cur.items)} \ {NONE}

\* C7: the excluded, base-domain and filtered-candidate buckets are pairwise
\* disjoint and their union is the set of normalized non-empty input tokens,
\* which is also the content of the "all" sequence.
C7_Partition ==
    cur.pc = "done" =>
        LET bd == Range(cur.r.base_domains)
            ex == Range(cur.r.excluded)
            fl == Range(cur.r.filtered)
        IN /\ bd \cap ex = {} /\ bd \cap fl = {} /\ ex \cap fl = {}
           /\ bd \cup ex \cup fl = InputTokens
           /\ Range(cur.r.all_items) = InputTokens
           /\ files[TestPaths.all] = File(cur.r.all_items)

\* A call that filled all three buckets.
C7_Witness ==
    /\ cur.pc = "done"
    /\ cur.r.base_domains # <<>> /\ cur.r.excluded # <<>> /\ cur.r.filtered # <<>>

\* C8: a token whose normalized form is in the Exclusion Set is in the excluded
\* bucket and in none of the base-domain bucket, the filtered-candidate bucket
\* and the visible filtered sequence, for both settings of filter_base_domains.
C8_ExclusionPriority ==
    cur.pc = "done" =>
        \A t \in InputTokens \cap cur.exclusions :
            /\ t \in Range(cur.r.excluded)
            /\ t \notin Range(cur.r.base_domains)
            /\ t \notin Range(cur.r.filtered)
            /\ t \notin Range(cur.r.filtered_list)
            /\ files[TestPaths.filtered] \in {ABSENT, STALE}
                   \/ t \notin Range(files[TestPaths.filtered].lines)

\* An excluded token that is a base domain, and one that is a listed
\* base-domain address, went through the Curator.
C8_Witness ==
    /\ cur.pc = "done"
    /\ \E t \in InputTokens \cap cur.exclusions : IsBaseDomain(t)
    /\ \E t \in InputTokens \cap cur.exclusions : t \in cur.basedomain_ips

\* s has no member twice.
NoDuplicates(s) == \A i, j \in 1..Len(s) : s[i] = s[j] => i = j

\* The order C11 states for a sequence: ascending by address when all of its
\* members are IPv4 literals or all are IPv6 literals, lexicographic otherwise.
InClaimedOrder(s) ==
    \A i \in 1..(Len(s) - 1) :
        IF \A k \in 1..Len(s) : IsIPv4(s[k])
        THEN SeqLeq(IPv4Octets(s[i]), IPv4Octets(s[i + 1]))
        ELSE IF \A k \in 1..Len(s) : IsIPv6(s[k])
        THEN SeqLeq(IPv6Hextets(s[i]), IPv6Hextets(s[i + 1]))
        ELSE SeqLeq(StrKey(s[i]), StrKey(s[i + 1]))

\* C11: each sequence the Curator produces (the three buckets, the "all"
\* sequence and the visible filtered sequence, for both settings of
\* filter_base_domains) is duplicate-free, in ascending address order when all
\* of its members are IPv4 literals or all are IPv6 literals, and in
\* lexicographic order otherwise.
C11_SequencesSorted ==
    cur.pc = "done" =>
        \A s \in {cur.r.base_domains, cur.r.excluded, cur.r.filtered,
                  cur.r.all_items, cur.r.filtered_list} :
            NoDuplicates(s) /\ InClaimedOrder(s)

\* C12: the visible filtered sequence, and the filtered count _write_lists
\* returns, consist of exactly the filtered-candidate bucket when
\* filter_base_domains is on, and of exactly the union of the
\* filtered-candidate and base-domain buckets when it is off.
C12_FilteredSequence ==
    cur.pc = "done" =>
        LET members == IF cur.filter_base_domains
                       THEN Range(cur.r.filtered)
                       ELSE Range(cur.r.filtered) \cup Range(cur.r.base_domains)
        IN /\ Range(cur.r.filtered_list) = members
           /\ NoDuplicates(cur.r.filtered_list)
           /\ cur.ret[2] = Cardinality(members)

\* With the option on, a call whose batch held base domains and other names:
\* the filtered sequence is shorter than the "all" sequence.
C12_Witness ==
    /\ cur.pc = "done" /\ cur.filter_base_domains
    /\ cur.r.base_domains # <<>> /\ cur.r.filtered # <<>>
    /\ cur.exclusions = {}
    /\ cur.ret[2] < cur.ret[1]

\* C13: an execution of the list-writing step writes the all-file always
\* (also from an empty list), the filtered file exactly when the filtered
\* sequence is non-empty and differs from the "all" sequence, the exclusions
\* file exactly when the excluded bucket is non-empty and the base-domains file
\* exactly when the base-domain bucket is non-empty; a file whose write is
\* skipped is left as it was.
C13_ConditionalWrites ==
    [][ (cur.pc = "call" /\ cur'.pc = "done") =>
          LET r == cur'.r
          IN /\ files'[TestPaths.all] = File(r.all_items)
             /\ files'[TestPaths.filtered] =
                  IF r.filtered_list # <<>> /\ r.filtered_list # r.all_items
                  THEN File(r.filtered_list) ELSE files[TestPaths.filtered]
             /\ files'[TestPaths.exclusions] =
                  IF r.excluded # <<>>
                  THEN File(r.excluded) ELSE files[TestPaths.exclusions]
             /\ files'[TestPaths.basedomains] =
                  IF r.base_domains # <<>>
                  THEN File(r.base_domains) ELSE files[TestPaths.basedomains] ]_vars

\* A call on a directory of earlier files whose filtered sequence was not empty
\* and equal to the "all" sequence: the base-domains file was written, the
\* filtered and exclusions files were left as they were.
C13_Witness ==
    /\ cur.pc = "done"
    /\ cur.r.filtered_list # <<>> /\ cur.r.filtered_list = cur.r.all_items
    /\ cur.r.excluded = <<>> /\ cur.r.base_domains # <<>>
    /\ files[TestPaths.all] = File(cur.r.all_items)
    /\ files[TestPaths.filtered] = STALE
    /\ files[TestPaths.exclusions] = STALE
    /\ files[TestPaths.basedomains] = File(cur.r.base_domains)
    /\ files[TestPaths.basedomains] # STALE

(***************************************************************************)
(* Resolver Engine: _resolve_fqdns.  A batch runs lookup_count passes; in  *)
(* a pass every unique name is submitted to a pool of max_workers threads, *)
(* each lookup tries its servers twice each, and the submitting thread     *)
(* collects the finished futures one at a time.  What a DNS server answers *)
(* is the environment's choice: failure, or a non-empty set of records of  *)
(* the name.                                                               *)
(***************************************************************************)
lookup_count == 5

max_workers == 20

\* self.dns_servers if self.dns_servers else [None]   (line 145)
NoServer == "None"

EffectiveServers(dns_servers) == IF dns_servers = <<>> THEN <<NoServer>> ELSE dns_servers

\* primary_dns (line 146)
PrimaryDns(dns_servers, pass_num) ==
    EffectiveServers(dns_servers)[(pass_num % Len(EffectiveServers(dns_servers))) + 1]

\* servers_to_try (line 149)
ServersToTry(dns_servers, pass_num) ==
    LET primary == PrimaryDns(dns_servers, pass_num)
        others == EffectiveServers(dns_servers)
        keep == {i \in 1..Len(others) : others[i] # primary}
        RECURSIVE Rest(_)
        Rest(i) == IF i > Len(others) THEN <<>>
                   ELSE (IF i \in keep THEN <<others[i]>> ELSE <<>>) \o Rest(i + 1)
    IN <<primary>> \o Rest(1)

\* sorted(set(fqdns))   (line 138)
UniqueFqdns(fqdns) == CHOOSE p \in Sorted(Range(fqdns), StrKey) : TRUE

\* The final sort of lines 195-200.
SortIps(all_ips, record_type) ==
    IF record_type = "A" THEN CHOOSE p \in Sorted(all_ips, IPv4Octets) : TRUE
    ELSE IF record_type = "AAAA" THEN CHOOSE p \in Sorted(all_ips, IPv6Hextets) : TRUE
    ELSE CHOOSE p \in Sorted(all_ips, StrKey) : TRUE

\* A collector that keeps only the last result handed over.
UpdateAllIpsOverwrite(all_ips, ips) == ips

\* all_ips.update(ips)   (line 190)
UpdateAllIps(all_ips, ips) == all_ips \cup ips

\* A lookup whose last failure escapes as an exception instead of returning.
AfterFailureRaises(fu, n) ==
    IF fu.attempt = 0 THEN [fu EXCEPT !.attempt = 1]
    ELSE IF fu.srv < n THEN [fu EXCEPT !.attempt = 0, !.srv = fu.srv + 1]
    ELSE [fu EXCEPT !.st = "raised"]

\* Lines 168-174, a failed attempt of a lookup with n servers to try: the
\* second attempt on the same server, then the next server, and after the last
\* server the lookup returns its (empty) set.
AfterFailure(fu, n) ==
    IF fu.attempt = 0 THEN [fu EXCEPT !.attempt = 1]
    ELSE IF fu.srv < n THEN [fu EXCEPT !.attempt = 0, !.srv = fu.srv + 1]
    ELSE [fu EXCEPT !.st = "finished"]

\* The records a name has in the DNS, as str(rdata) gives them.
Zone(fqdn, record_type) ==
    IF record_type = "A"
    THEN (IF fqdn = T_g_co THEN {T_9_9_9_9, T_10_0_0_1}
          ELSE IF fqdn = T_d_g_co THEN {T_10_0_0_1}
          ELSE {})
    ELSE (IF fqdn = T_g_co THEN {T_v6_a, T_v6_10}
          ELSE IF fqdn = T_d_g_co THEN {T_v6_10}
          ELSE {})

\* What one resolver.resolve call may return: "fail" stands for any exception
\* (timeout, SERVFAIL, NXDOMAIN, no answer), otherwise the records answered.
Answers(fqdn, record_type) == SUBSET Zone(fqdn, record_type) \ {{}}

\* A future of the pass; log records the servers its lookup has queried so far
\* (it is not program state).
Future(st) == [st |-> st, srv |-> 1, attempt |-> 0, ips |-> {}, log |-> <<>>]

(***************************************************************************)
(* SpecResolve: one batch.  The fields answered, lookups and failed record *)
(* what happened (they are not program state): the addresses each name's   *)
(* successful lookups returned, the lookups finished per name, and the     *)
(* names with a failed attempt.                                            *)
(***************************************************************************)
ResolveBatches == { <<T_g_co>>, <<T_g_co, T_d_g_co>>, <<T_d_g_co, T_g_co, T_d_g_co>> }

\* --dns-servers: nothing, one server, two servers, and lists naming a server twice.
ServerLists ==
    { <<>>, <<"s1">>, <<"s1", "s2">>, <<"s1", "s2", "s2">>, <<"s1", "s1", "s2">> }

InitResolve ==
    /\ fn = NoCall
    /\ run = NoRun
    /\ cur = NoCurate
    /\ files = NoFiles
    /\ \E fqdns \in ResolveBatches, servers \in ServerLists, rt \in {"A", "AAAA"} :
         rs = [pc |-> "pass", fqdns |-> fqdns, dns_servers |-> servers,
               record_type |-> rt, unique_fqdns |-> UniqueFqdns(fqdns),
               pass_num |-> 0, all_ips |-> {},
               futures |-> [f \in Range(fqdns) |-> Future("none")],
               result |-> <<>>,
               answered |-> [f \in Range(fqdns) |-> {}],
               lookups |-> [f \in Range(fqdns) |-> 0],
               failed |-> {}]

\* Lines 179-184: the pass submits one lookup per unique name.
SubmitPass ==
    /\ rs.pc = "pass"
    /\ rs.pass_num < lookup_count
    /\ \A f \in DOMAIN rs.futures : rs.futures[f].st = "none"
    /\ rs' = [rs EXCEPT !.futures = [f \in DOMAIN rs.futures |-> Future("queued")]]
    /\ UNCHANGED <<fn, cur, files, run>>

\* A pool in which every submitted lookup gets a thread at once.
WorkerAlwaysFree(running) == TRUE

\* ThreadPoolExecutor(max_workers=20), line 179: a queued lookup is taken by a
\* worker thread only while fewer than max_workers lookups are running.
WorkerFree(running) == running < max_workers

\* A free worker thread takes a queued lookup.
StartLookup(f) ==
    /\ rs.pc = "pass"
    /\ rs.futures[f].st = "queued"
    /\ WorkerFree(Cardinality({g \in DOMAIN rs.futures : rs.futures[g].st = "running"}))
    /\ rs' = [rs EXCEPT !.futures[f].st = "running"]
    /\ UNCHANGED <<fn, cur, files, run>>

\* Lines 151-174, one resolver.resolve call of a running lookup: an answer ends
\* the lookup with the records answered; a failure is handled by AfterFailure.
Attempt(f) ==
    /\ rs.pc = "pass"
    /\ rs.futures[f].st = "running"
    /\ LET fu == rs.futures[f]
           servers_to_try == ServersToTry(rs.dns_servers, rs.pass_num)
           nf == AfterFailure(fu, Len(servers_to_try))
           log == Append(fu.log, servers_to_try[fu.srv])
       IN \/ \E ans \in Answers(f, rs.record_type) :
                rs' = [rs EXCEPT !.futures[f] = [fu EXCEPT !.st = "finished", !.ips = ans,
                                                          !.log = log],
                                 !.answered[f] = @ \cup ans,
                                 !.lookups[f] = @ + 1]
          \/ rs' = [rs EXCEPT !.futures[f] = [nf EXCEPT !.log = log],
                              !.failed = @ \cup {f},
                              !.lookups[f] = IF nf.st = "running" THEN @ ELSE @ + 1]
    /\ UNCHANGED <<fn, cur, files, run>>

\* Lines 187-192: as_completed hands over one finished future.
Collect(f) ==
    /\ rs.pc = "pass"
    /\ rs.futures[f].st = "finished"
    /\ rs' = [rs EXCEPT !.futures[f].st = "collected",
                        !.all_ips = UpdateAllIps(rs.all_ips, rs.futures[f].ips)]
    /\ UNCHANGED <<fn, cur, files, run>>

\* The with-block of line 179 ends once every future was collected; after the
\* last pass the batch returns the sorted addresses (lines 194-200).
EndPass ==
    /\ rs.pc = "pass"
    /\ \A f \in DOMAIN rs.futures : rs.futures[f].st = "collected"
    /\ LET next == rs.pass_num + 1
       IN rs' = [rs EXCEPT !.pass_num = next,
                           !.futures = [f \in DOMAIN rs.futures |-> Future("none")],
                           !.pc = IF next = lookup_count THEN "done" ELSE "pass",
                           !.result = IF next = lookup_count
                                      THEN SortIps(rs.all_ips, rs.record_type)
                                      ELSE <<>>]
    /\ UNCHANGED <<fn, cur, files, run>>

NextResolve ==
    \/ SubmitPass
    \/ \E f \in DOMAIN rs.futures : StartLookup(f)
    \/ \E f \in DOMAIN rs.futures : Attempt(f)
    \/ \E f \in DOMAIN rs.futures : Collect(f)
    \/ EndPass

SpecResolve == InitResolve /\ [][NextResolve]_vars

(***************************************************************************)
(* Claims about the Resolver Engine.                                       *)
(***************************************************************************)
\* Every address a successful lookup of the batch returned.
AllAnswered == UNION {rs.answered[f] : f \in DOMAIN rs.answered}

\* C1: the list a batch returns holds exactly the union of the addresses
\* returned by every successful lookup of every name in every pass, none lost
\* and none invented, whatever the order in which the lookups complete.
C1_ResultIsUnion ==
    /\ rs.pc \in {"pass", "done"} => rs.all_ips \subseteq AllAnswered
    /\ rs.pc = "done" =>
          /\ Range(rs.result) = AllAnswered
          /\ Len(rs.result) = Cardinality(AllAnswered)

\* A finished batch in which the lookups of g.co returned both of its
\* addresses, after a failed attempt, and two names were resolved.
C1_Witness ==
    /\ rs.pc = "done"
    /\ Cardinality(DOMAIN rs.futures) = 2
    /\ rs.answered[T_g_co] = Zone(T_g_co, rs.record_type)
    /\ rs.failed # {}

\* Some step of the batch is possible: a pass can be submitted, a lookup can
\* start, make an attempt or be collected, or the pass can end.
BatchCanProceed ==
    \/ \E f \in DOMAIN rs.futures : rs.futures[f].st \in {"queued", "running", "finished"}
    \/ \A f \in DOMAIN rs.futures : rs.futures[f].st = "collected"
    \/ rs.pass_num < lookup_count /\ \A f \in DOMAIN rs.futures : rs.futures[f].st = "none"

\* C6: a name whose every attempt on every server fails contributes the empty
\* set and nothing else changes: the batch completes (it can always take a next
\* step until it has returned), every name is looked up in every pass, the
\* addresses of the other names are all in the result.
C6_FailedNameIsolated ==
    /\ rs.pc = "pass" => BatchCanProceed
    /\ rs.pc = "done" =>
          /\ \A f \in DOMAIN rs.lookups : rs.lookups[f] = lookup_count
          /\ \A f \in DOMAIN rs.answered : rs.answered[f] \subseteq Range(rs.result)
          /\ \A h \in DOMAIN rs.answered :
                rs.answered[h] = {} =>
                   Range(rs.result) =
                      UNION {rs.answered[f] : f \in DOMAIN rs.answered \ {h}}

\* A finished batch in which every lookup of d.g.co failed on every server
\* while g.co was resolved.
C6_Witness ==
    /\ rs.pc = "done"
    /\ T_d_g_co \in DOMAIN rs.answered
    /\ rs.answered[T_d_g_co] = {} /\ T_d_g_co \in rs.failed
    /\ rs.answered[T_g_co] # {}
    /\ Len(rs.dns_servers) = 2

\* Each member of seq twice, in order.
Twice(seq) == [i \in 1..(2 * Len(seq)) |-> seq[(i + 1) \div 2]]

IsPrefix(a, b) == Len(a) <= Len(b) /\ SubSeq(b, 1, Len(a)) = a

\* The attempts C14 states for a lookup of pass p that never succeeds:
\* servers[p mod len(servers)] twice, then each remaining configured server
\* twice in configured order; the system resolver twice with no server.
ClaimedAttempts(servers, p) ==
    IF servers = <<>> THEN <<NoServer, NoServer>>
    ELSE LET k == (p % Len(servers)) + 1
             remaining == SubSeq(servers, 1, k - 1) \o SubSeq(servers, k + 1, Len(servers))
         IN Twice(<<servers[k]>> \o remaining)

\* The number of attempts of log made on server s.
AttemptsOn(log, s) == Cardinality({i \in 1..Len(log) : log[i] = s})

\* C14: for every server list (entries not assumed distinct) and every pass,
\* the attempts of a lookup are a prefix of the stated sequence, no server
\* receives more than two attempts in one lookup, the lookup ends at its first
\* successful attempt or when the servers are used up, after at most
\* 2 * len(servers) attempts (2 on the system resolver with no server).
C14_AttemptSequence ==
    \A f \in DOMAIN rs.futures :
        LET fu == rs.futures[f]
            claimed == ClaimedAttempts(rs.dns_servers, rs.pass_num)
        IN /\ IsPrefix(fu.log, claimed)
           /\ \A s \in Range(fu.log) : AttemptsOn(fu.log, s) <= 2
           /\ Len(fu.log) <= 2 * Len(EffectiveServers(rs.dns_servers))
           /\ fu.st = "running" => fu.ips = {} /\ Len(fu.log) < Len(claimed)
           /\ (fu.st \in {"finished", "collected"} /\ fu.ips = {}) => fu.log = claimed

(***************************************************************************)
(* SpecPool: the passes and the thread pool of one batch of n distinct     *)
(* names, for batches larger than the pool.  The names of a batch are      *)
(* submitted, run and collected alike, so one of them (h) is followed by    *)
(* itself and the others are counted by the state of their futures.  A      *)
(* lookup is one step here: its attempts are those of SpecResolve.  The     *)
(* fields started, merged and hl record what happened (they are not         *)
(* program state): the lookups started and the results merged into all_ips  *)
(* since the batch began, and the lookups of h started.                     *)
(***************************************************************************)
PoolSizes == {1, 2, max_workers, max_workers + 1, max_workers + 2}

InitPool ==
    /\ fn = NoCall
    /\ run = NoRun
    /\ cur = NoCurate
    /\ files = NoFiles
    /\ \E n \in PoolSizes :
         rs = [pc |-> "pool", n |-> n, pass_num |-> 0,
               queued |-> 0, running |-> 0, finished |-> 0, collected |-> 0,
               h |-> "none", started |-> 0, merged |-> 0, hl |-> 0]

\* The lookups that are executing resolve_single_lookup.
RunningNow == rs.running + (IF rs.h = "running" THEN 1 ELSE 0)

\* Lines 179-184: the pass submits one lookup per unique name.
PoolSubmit ==
    /\ rs.pc = "pool"
    /\ rs.pass_num < lookup_count
    /\ rs.h = "none"
    /\ rs' = [rs EXCEPT !.queued = rs.n - 1, !.h = "queued"]
    /\ UNCHANGED <<fn, cur, files, run>>

\* A free worker thread takes a queued lookup: that of h, or another.
PoolStart ==
    /\ rs.pc = "pool"
    /\ WorkerFree(RunningNow)
    /\ \/ /\ rs.h = "queued"
          /\ rs' = [rs EXCEPT !.h = "running", !.started = @ + 1, !.hl = @ + 1]
       \/ /\ rs.queued > 0
          /\ rs' = [rs EXCEPT !.queued = @ - 1, !.running = @ + 1, !.started = @ + 1]
    /\ UNCHANGED <<fn, cur, files, run>>

\* Lines 140-174: a running lookup returns (with addresses or without).
PoolFinish ==
    /\ rs.pc = "pool"
    /\ \/ /\ rs.h = "running"
          /\ rs' = [rs EXCEPT !.h = "finished"]
       \/ /\ rs.running > 0
          /\ rs' = [rs EXCEPT !.running = @ - 1, !.finished = @ + 1]
    /\ UNCHANGED <<fn, cur, files, run>>

\* Lines 187-192: as_completed hands over one finished future and its
\* addresses are merged into all_ips.
PoolCollect ==
    /\ rs.pc = "pool"
    /\ \/ /\ rs.h = "finished"
          /\ rs' = [rs EXCEPT !.h = "collected", !.merged = @ + 1]
       \/ /\ rs.finished > 0
          /\ rs' = [rs EXCEPT !.finished = @ - 1, !.collected = @ + 1, !.merged = @ + 1]
    /\ UNCHANGED <<fn, cur, files, run>>

\* The with-block of line 179 ends once every future was collected; the batch
\* returns after the last pass.
PoolEndPass ==
    /\ rs.pc = "pool"
    /\ rs.h = "collected" /\ rs.collected = rs.n - 1
    /\ rs' = [rs EXCEPT !.pass_num = @ + 1, !.h = "none", !.collected = 0,
                        !.pc = IF rs.pass_num + 1 = lookup_count THEN "done" ELSE "pool"]
    /\ UNCHANGED <<fn, cur, files, run>>

NextPool ==
    \/ PoolSubmit
    \/ PoolStart
    \/ PoolFinish
    \/ PoolCollect
    \/ PoolEndPass

SpecPool == InitPool /\ [][NextPool]_vars

\* C15: a batch is exactly 5 passes; in each pass every distinct name is looked
\* up exactly once (5 lookups per name, one per pass); the passes are
\* sequential: no lookup of pass k+1 starts before every lookup of pass k has
\* completed and its addresses were merged by the collecting control flow; and
\* at most 20 lookups are outstanding (executing) at any time.
C15_SequentialPasses ==
    /\ rs.pass_num <= lookup_count
    /\ rs.pc = "done" =>
          /\ rs.pass_num = lookup_count
          /\ rs.started = lookup_count * rs.n /\ rs.merged = lookup_count * rs.n
          /\ rs.hl = lookup_count
    /\ rs.hl = rs.pass_num + (IF rs.h \in {"running", "finished", "collected"} THEN 1 ELSE 0)
    /\ rs.h = "none" => rs.started = rs.pass_num * rs.n
    /\ rs.started <= (rs.pass_num + 1) * rs.n
    /\ \A k \in 1..(lookup_count - 1) : rs.started > k * rs.n => rs.merged >= k * rs.n
    /\ RunningNow <= max_workers

\* In a later pass of a batch larger than the pool, max_workers lookups are
\* running and another is waiting for a thread.
C15_Witness ==
    /\ rs.pc = "pool" /\ rs.pass_num >= 1
    /\ RunningNow = max_workers
    /\ rs.queued > 0 \/ rs.h = "queued"

(***************************************************************************)
(* Orchestrator: run().                                                    *)
(***************************************************************************)
Families == {"fqdn", "ipv4", "ipv6"}

\* self.output_dir / "doh_<family>.txt" and its three companions.
DohPaths(family) == Paths(family)

AllDohPaths == {DohPaths(f)[k] : f \in Families, k \in Kinds}

\* _count_entries (lines 202-210).  The files are written with the utf-8-sig
\* codec (line 287), which puts a byte order mark first, and read back with the
\* utf-8 codec, which keeps it as a character of the first line; strip() does
\* not remove it, so the first line always counts, also that of a file written
\* from an empty list.
CountEntries(file) ==
    IF ~file.exists THEN 0
    ELSE IF file.lines = <<>> THEN 1
    ELSE 1 + Cardinality({i \in 2..Len(file.lines) : Strip(file.lines[i]) # <<>>})

\* The first index at which sub occurs in s, 0 if it does not.
FindSub(s, sub) ==
    LET hits == {i \in 1..(Len(s) - Len(sub) + 1) : SubSeq(s, i, i + Len(sub) - 1) = sub}
    IN IF hits = {} THEN 0 ELSE CHOOSE i \in hits : \A j \in hits : i <= j

\* str.strip("[")
RECURSIVE StripBracket(_)
StripBracket(s) ==
    IF s = <<>> THEN <<>>
    ELSE IF s[1] = "[" THEN StripBracket(Tail(s))
    ELSE IF s[Len(s)] = "[" THEN StripBracket(SubSeq(s, 1, Len(s) - 1))
    ELSE s

\* Lines 353-364: the host of an endpoint URL.
HostOf(url) ==
    LET k == FindSub(url, <<":", "/", "/">>)
        rest == IF k # 0 THEN SubSeq(url, k + 3, Len(url)) ELSE url
        host == Split(rest, "/")[1]
    IN IF host # <<>> /\ host[1] = "["
       THEN StripBracket(Split(host, "]")[1])
       ELSE Split(host, ":")[1]

\* Line 343: the non-empty stripped lines of the scraper's output.
EndpointUrls(stdout_lines) ==
    LET NonEmpty(l) == l # <<>>
    IN SelectSeq([i \in 1..Len(stdout_lines) |-> Strip(stdout_lines[i])], NonEmpty)

\* Lines 351-370: the sorted set of the normalized hosts that are names.
ParseFqdns(endpoint_urls) ==
    LET hosts == {Normalize(HostOf(endpoint_urls[i])) : i \in 1..Len(endpoint_urls)}
        names == {h \in hosts : h # NONE /\ ~IsIPv4(h) /\ ~IsIPv6(h)}
    IN CHOOSE p \in Sorted(names, StrKey) : TRUE

\* Line 371
BaseDomainFqdns(fqdns) == SelectSeq(fqdns, IsBaseDomain)

\* A guard in which each check replaces the verdict of the one before.
RatioOkLastOnly(old, n_fqdn, n_ipv4, n_ipv6, tol) ==
    CheckRatio(old.ipv6, n_ipv6, tol)

\* Lines 397-400: the three checks, all of them made.
RatioOk(old, n_fqdn, n_ipv4, n_ipv6, tol) ==
    /\ CheckRatio(old.fqdn, n_fqdn, tol)
    /\ CheckRatio(old.ipv4, n_ipv4, tol)
    /\ CheckRatio(old.ipv6, n_ipv6, tol)

\* What _resolve_fqdns(fqdns, record_type) returns when the lookups of the
\* names in up are answered with all their records and those of the other
\* names fail: the sorted union (C1).
ResolveFqdns(fqdns, record_type, up) ==
    SortIps(UNION {Zone(f, record_type) : f \in Range(fqdns) \cap up}, record_type)

(***************************************************************************)
(* SpecRun: runs of the program one after the other on one output          *)
(* directory, each with its own options, scraper outcome and DNS answers.  *)
(* The fields prev, wrote, touched and reason record what happened (they   *)
(* are not program state): the entries each all-file held when the run     *)
(* started, the families whose lists the run wrote, whether the run        *)
(* changed the directory, and why it exited; start is the all-file of each *)
(* family as it was when the run started.                                  *)
(***************************************************************************)
U_g_co == <<"h", ":", "/", "/">> \o T_g_co \o <<"/", "q">>
U_d_g_co_port == T_d_g_co \o <<":", "8", "/", "q">>
U_G_CO_dot == <<" ", "H", ":", "/", "/">> \o T_G_CO_dot \o <<"/">>
U_v6 == <<"h", ":", "/", "/", "[">> \o T_v6_a \o <<"]", ":", "8", "/", "q">>
U_v4 == <<"h", ":", "/", "/">> \o T_9_9_9_9
U_a == <<"a">>
U_a_space_dot == <<"h", ":", "/", "/", "a", " ", ".", "/">>

\* The outputs of the scraper: lines of text.
ScraperOutputs ==
    { <<>>,
      <<U_g_co>>,
      <<U_g_co, <<" ">>, U_d_g_co_port, U_G_CO_dot>>,
      <<U_v6, U_a, U_d_g_co_port, U_v4, U_g_co>>,
      <<U_a, U_a_space_dot>> }

\* The options of a run: the defaults, and variations of them.
RunOptions ==
    { [clean_output |-> c, skip_ratio_check |-> k, resolve_ips |-> r,
       filter_base_domains |-> b, tol |-> t, exclusions |-> LoadExclusions(e, <<>>)] :
        c \in BOOLEAN, k \in BOOLEAN,
        <<r, b, t, e>> \in { <<TRUE, FALSE, 20, <<>> >>,
                            <<TRUE, TRUE, 50, <<T_G_CO_dot>> >>,
                            <<FALSE, FALSE, 50, <<>> >> } }

\* The names whose lookups are answered during a run.
DnsWorlds == { {}, {T_g_co}, {T_g_co, T_d_g_co} }

NoCounts == [f \in Families |-> 0]

\* Counts taken of a directory that holds no list.
OldCountsOfNothing(fs) == NoCounts

\* Lines 317-320: old_fqdn, old_ipv4, old_ipv6.
OldCounts(fs) == [f \in Families |-> CountEntries(fs[DohPaths(f).all])]

InitRun ==
    /\ fn = NoCall
    /\ cur = NoCurate
    /\ rs = NoResolve
    /\ files = [p \in AllDohPaths |-> ABSENT]
    /\ run = [pc |-> "idle", opt |-> CHOOSE o \in RunOptions : TRUE,
              old |-> NoCounts, fqdns |-> <<>>, ipv4 |-> <<>>, ipv6 |-> <<>>,
              base_domain_ipv4 |-> {}, base_domain_ipv6 |-> {},
              prev |-> NoCounts, wrote |-> {}, touched |-> FALSE, reason |-> "none",
              start |-> [f \in Families |-> ABSENT]]

\* The entries of an all-file: the lines written to it.
Entries(file) == IF file.exists THEN Len(file.lines) ELSE 0

\* Lines 313-320: a run starts and counts the entries of the three all-files.
StartRun ==
    /\ run.pc \in {"idle", "exit0", "exit1"}
    /\ \E opt \in RunOptions :
         run' = [pc |-> "clean", opt |-> opt,
                 old |-> OldCounts(files),
                 fqdns |-> <<>>, ipv4 |-> <<>>, ipv6 |-> <<>>,
                 base_domain_ipv4 |-> {}, base_domain_ipv6 |-> {},
                 prev |-> [f \in Families |-> Entries(files[DohPaths(f).all])],
                 wrote |-> {}, touched |-> FALSE, reason |-> "none",
                 start |-> [f \in Families |-> files[DohPaths(f).all]]]
    /\ UNCHANGED <<fn, cur, files, rs>>

\* Lines 322-326: with clean_output every *.txt of the directory is unlinked.
CleanOutput ==
    /\ run.pc = "clean"
    /\ files' = IF run.opt.clean_output THEN [p \in DOMAIN files |-> ABSENT] ELSE files
    /\ run' = [run EXCEPT !.pc = "scrape", !.touched = @ \/ files' # files]
    /\ UNCHANGED <<fn, cur, rs>>

\* Lines 328-332: the scraper script is not there.
ScraperMissing ==
    /\ run.pc = "scrape"
    /\ run' = [run EXCEPT !.pc = "exit1", !.reason = "scraper_missing"]
    /\ UNCHANGED <<fn, cur, files, rs>>

\* Lines 344-346: the scraper exits with a non-zero status.
ScraperFailed ==
    /\ run.pc = "scrape"
    /\ run' = [run EXCEPT !.pc = "exit1", !.reason = "scraper_failed"]
    /\ UNCHANGED <<fn, cur, files, rs>>

\* Lines 334-373: the scraper prints its URLs and the names are extracted.
Scrape ==
    /\ run.pc = "scrape"
    /\ \E out \in ScraperOutputs :
         run' = [run EXCEPT !.pc = "resolve", !.fqdns = ParseFqdns(EndpointUrls(out))]
    /\ UNCHANGED <<fn, cur, files, rs>>

\* Lines 375-393: the four resolution batches, or none with --no-resolve.
Resolve ==
    /\ run.pc = "resolve"
    /\ \/ /\ run.opt.resolve_ips
          /\ \E up \in DnsWorlds :
               LET bd == BaseDomainFqdns(run.fqdns)
               IN run' = [run EXCEPT
                     !.pc = "check",
                     !.ipv4 = ResolveFqdns(run.fqdns, "A", up),
                     !.ipv6 = ResolveFqdns(run.fqdns, "AAAA", up),
                     !.base_domain_ipv4 = Range(ResolveFqdns(bd, "A", up)),
                     !.base_domain_ipv6 = Range(ResolveFqdns(bd, "AAAA", up))]
       \/ /\ ~run.opt.resolve_ips
          /\ run' = [run EXCEPT !.pc = "check"]
    /\ UNCHANGED <<fn, cur, files, rs>>

\* Lines 395-404: the Change Guard; a failed check exits before any write.
CheckRatios ==
    /\ run.pc = "check"
    /\ IF ~run.opt.skip_ratio_check
          /\ ~RatioOk(run.old, Len(run.fqdns), Len(run.ipv4), Len(run.ipv6), run.opt.tol)
       THEN run' = [run EXCEPT !.pc = "exit1", !.reason = "ratio"]
       ELSE run' = [run EXCEPT !.pc = "write_fqdn"]
    /\ UNCHANGED <<fn, cur, files, rs>>

\* One _write_lists call of run() for a family, and the position after it.
WriteFamily(family, items, basedomain_ips, next) ==
    \E r \in Curate(items, run.opt.exclusions, basedomain_ips,
                    run.opt.filter_base_domains) :
        /\ files' = WriteFiles(files, DohPaths(family), r)
        /\ run' = [run EXCEPT !.pc = next, !.wrote = @ \cup {family},
                              !.touched = @ \/ files' # files,
                              !.reason = IF next = "exit0" THEN "done" ELSE @]

\* Lines 409-416
WriteFqdn ==
    /\ run.pc = "write_fqdn"
    /\ WriteFamily("fqdn", run.fqdns, {},
                   IF run.opt.resolve_ips THEN "write_ipv4" ELSE "exit0")
    /\ UNCHANGED <<fn, cur, rs>>

\* Lines 418-426
WriteIpv4 ==
    /\ run.pc = "write_ipv4"
    /\ WriteFamily("ipv4", run.ipv4, run.base_domain_ipv4, "write_ipv6")
    /\ UNCHANGED <<fn, cur, rs>>

\* Lines 428-435
WriteIpv6 ==
    /\ run.pc = "write_ipv6"
    /\ WriteFamily("ipv6", run.ipv6, run.base_domain_ipv6, "exit0")
    /\ UNCHANGED <<fn, cur, rs>>

NextRun ==
    \/ StartRun
    \/ CleanOutput
    \/ ScraperMissing
    \/ ScraperFailed
    \/ Scrape
    \/ Resolve
    \/ CheckRatios
    \/ WriteFqdn
    \/ WriteIpv4
    \/ WriteIpv6

SpecRun == InitRun /\ [][NextRun]_vars

(***************************************************************************)
(* Claims about the Orchestrator and the Change Guard.                     *)
(***************************************************************************)
\* The number of entries run() hands to the list-writing step for a family.
NewCount(family) ==
    IF family = "fqdn" THEN Len(run.fqdns)
    ELSE IF family = "ipv4" THEN Len(run.ipv4) ELSE Len(run.ipv6)

\* The Change Guard rejects the counts of at least one family.
GuardFails == \E f \in Families : ~CheckRatio(run.old[f], NewCount(f), run.opt.tol)

\* The families run() writes when it reaches the list-writing step.
FamiliesWritten == IF run.opt.resolve_ips THEN Families ELSE {"fqdn"}

WritePositions == {"write_fqdn", "write_ipv4", "write_ipv6"}

\* C2: with the ratio check not skipped, a guard failure for at least one
\* family ends the run with a non-zero exit and the list-writing step is not
\* executed for any family: no file is created or overwritten.  With the check
\* skipped, a guard-violating change does not abort the run and the lists are
\* written.
C2_GuardFailureAborts ==
    /\ [][ /\ (run.pc = "check" /\ ~run.opt.skip_ratio_check /\ GuardFails)
                => (run'.pc = "exit1" /\ run'.wrote = {} /\ files' = files)
           /\ (run.pc = "check" /\ run.opt.skip_ratio_check)
                => run'.pc = "write_fqdn"
           /\ (run.pc = "exit1") => files' = files ]_vars
    /\ [](run.pc = "exit1" => run.wrote = {})
    /\ []((run.pc \in WritePositions /\ ~run.opt.skip_ratio_check) => ~GuardFails)
    /\ [](run.pc = "exit0" => run.wrote = FamiliesWritten)

\* A run the guard aborted while earlier files were in the directory.
C2_Witness ==
    /\ run.pc = "exit1" /\ run.reason = "ratio"
    /\ \E p \in DOMAIN files : files[p].exists

C5_ScraperFailureTouchesNothing ==
    (run.pc = "exit1" /\ run.reason \in {"scraper_missing", "scraper_failed"})
        => ~run.touched

\* C16: the previous counts the Change Guard uses are those of the all-files
\* as they were when the run started: they are read before the purge and
\* before any write, so with the purge enabled a list that had entries is not
\* counted as 0 and the guard is applied as without the purge.
C16_OldCountsReadFirst ==
    run.pc # "idle" =>
        /\ \A f \in Families :
              /\ run.old[f] = CountEntries(run.start[f])
              /\ run.prev[f] # 0 => run.old[f] = run.prev[f]
        /\ (run.pc \in WritePositions \cup {"exit0"} /\ ~run.opt.skip_ratio_check)
              => \A f \in Families :
                     CheckRatio(CountEntries(run.start[f]), NewCount(f), run.opt.tol)
        /\ (run.pc = "exit1" /\ run.reason = "ratio")
              => \E f \in Families :
                     ~CheckRatio(CountEntries(run.start[f]), NewCount(f), run.opt.tol)

\* A run with the purge enabled that the guard aborted: the directory had
\* lists when the run started and is empty when the counts are compared.
C16_Witness ==
    /\ run.pc = "exit1" /\ run.reason = "ratio" /\ run.opt.clean_output
    /\ \E f \in Families : run.prev[f] > 1 /\ run.old[f] = run.prev[f]
    /\ \A p \in DOMAIN files : ~files[p].exists

\* C17: for every family written by a completed run, the count the Change
\* Guard compared equals the number of entries the run wrote to the family's
\* all-file, which equals the previous count the next run reads from that
\* file: the guard judges the size of the list that is published.
C17_GuardJudgesPublishedList ==
    run.pc = "exit0" =>
        \A f \in run.wrote :
            /\ NewCount(f) = Entries(files[DohPaths(f).all])
            /\ Entries(files[DohPaths(f).all]) = OldCounts(files)[f]

=============================================================================
